---- MODULE Spec2Model ----
(***************************************************************************)
(* Model of src/main.cpp: the lazily cached dynamic POSIX clock identifier *)
(* of GetPtpTime, the FD_TO_CLOCKID derivation, and main's control flow.   *)
(*                                                                         *)
(* Three specifications share the variables:                               *)
(*   Spec       - a caller issuing any sequence of GetPtpTime calls        *)
(*   SpecMain   - the program's main()                                     *)
(*   SpecDerive - FD_TO_CLOCKID applied to handle values                   *)
(***************************************************************************)
EXTENDS Integers, Sequences, FiniteSets, TLC

VARIABLES
    clkid,      \* static clockid_t clkid of GetPtpTime (line 46)
    pc,         \* position inside GetPtpTime, "idle" when no call is active
    fd,         \* local int fd of GetPtpTime (line 48)
    tsPtr,      \* the argument ts: TRUE when it is not nullptr
    ts,         \* the caller's struct timespec that ts points to
    openFds,    \* descriptors open in the process
    ptpFds,     \* descriptors open on DEV_PATH
    out,        \* lines written to stdout / stderr, in order
    rets,       \* values returned by the finished calls of GetPtpTime
    errs,       \* outcome of each finished call
    opens,      \* number of successful open(DEV_PATH) calls
    openAttempts, \* number of open(DEV_PATH) calls
    readIds,    \* identifiers handed to clock_gettime at line 59
    entry,      \* per call begun: the caller's timespec and the open counters at entry
    mpc,        \* position inside main, "caller" for the generic caller
    ts2,        \* main's ts2
    ts3,        \* main's ts3
    exitStatus  \* {} while running, {code} once main has returned

vars == <<clkid, pc, fd, tsPtr, ts, openFds, ptpFds, out, rets, errs, opens,
          openAttempts, readIds, entry, mpc, ts2, ts3, exitStatus>>

(***************************************************************************)
(* Bounds                                                                  *)
(***************************************************************************)
MaxCalls == 3
MaxFd == 6
MaxSec == 2
MaxHandle == 63

(***************************************************************************)
(* Program constants                                                       *)
(***************************************************************************)
CLOCK_INVALID == -1
IntWidth == 32
NSEC_PER_SEC == 1000000000

(***************************************************************************)
(* 32-bit words as bit vectors (bit 0 is the least significant)            *)
(***************************************************************************)
Bits == 0..(IntWidth - 1)

\* the two's complement representation of the int n
ToBits(n) ==
    [i \in Bits |->
        IF n >= 0
        THEN IF i = IntWidth - 1 THEN 0 ELSE (n \div (2^i)) % 2
        ELSE IF i = IntWidth - 1 THEN 1 ELSE 1 - (((-(n + 1)) \div (2^i)) % 2)]

RECURSIVE SumBits(_, _)
SumBits(b, i) == IF i < 0 THEN 0 ELSE b[i] * (2^i) + SumBits(b, i - 1)

\* the int a bit vector denotes, read as a signed value
ToSigned(b) ==
    IF b[IntWidth - 1] = 1
    THEN (SumBits(b, IntWidth - 2) - 2^(IntWidth - 2)) - 2^(IntWidth - 2)
    ELSE SumBits(b, IntWidth - 2)

BitNot(b) == [i \in Bits |-> 1 - b[i]]
BitOr(a, b) == [i \in Bits |-> IF a[i] = 1 \/ b[i] = 1 THEN 1 ELSE 0]
ShiftLeft(b, k) == [i \in Bits |-> IF i < k THEN 0 ELSE b[i - k]]
ShiftRightArith(b, k) ==
    [i \in Bits |-> IF i + k <= IntWidth - 1 THEN b[i + k] ELSE b[IntWidth - 1]]

\* variant: the handle value is not inverted
FD_TO_CLOCKID_NoInvert(f) ==
    ToSigned(BitOr(ShiftLeft(ToBits(f), 3), ToBits(3)))

\* variant: the tag is 7 instead of 3
FD_TO_CLOCKID_Tag7(f) ==
    ToSigned(BitOr(ShiftLeft(BitNot(ToBits(f)), 3), ToBits(7)))

\* #define FD_TO_CLOCKID(fd) ((clockid_t)((((unsigned int)~fd) << 3) | 3))
FD_TO_CLOCKID(f) ==
    ToSigned(BitOr(ShiftLeft(BitNot(ToBits(f)), 3), ToBits(3)))

\* the descriptor the kernel resolves a dynamic clock identifier to
CLOCKID_TO_FD(clk) == ToSigned(BitNot(ShiftRightArith(ToBits(clk), 3)))

(***************************************************************************)
(* Timestamps                                                              *)
(***************************************************************************)
Zero == [tv_sec |-> 0, tv_nsec |-> 0]

\* values a clock read can store
Times == {[tv_sec |-> s, tv_nsec |-> n] : s \in 1..MaxSec, n \in {0, NSEC_PER_SEC - 1}}

\* contents of a struct timespec that was declared without an initializer
Indeterminate == Times \cup {Zero}

\* instants of std::chrono::system_clock, in nanoseconds since the epoch
NowCounts == {k * (NSEC_PER_SEC \div 2) + 1 : k \in 1..MaxSec}

(***************************************************************************)
(* The operating system                                                    *)
(***************************************************************************)
\* open() returns the lowest-numbered descriptor that is not open
LowestFree(S) == CHOOSE n \in 0..Cardinality(S) : n \notin S /\ \A m \in 0..(n - 1) : m \in S

(***************************************************************************)
(* GetPtpTime                                                              *)
(***************************************************************************)
\* return v; e records which outcome it was
Return(v, e) ==
    /\ rets' = Append(rets, v)
    /\ errs' = Append(errs, e)
    /\ pc' = "idle"

\* a caller enters GetPtpTime(p)
Call(p) ==
    /\ pc = "idle"
    /\ pc' = "L47"
    /\ tsPtr' = p
    /\ entry' = Append(entry, [ts |-> ts, opens |-> opens, attempts |-> openAttempts])

\* variant: the cached identifier is not consulted, every call opens
GetPtpTime_L47_NoCache ==
    /\ pc = "L47"
    /\ pc' = "L48"
    /\ UNCHANGED <<clkid, fd, tsPtr, ts, openFds, ptpFds, out, rets, errs, opens,
                   openAttempts, readIds, entry, mpc, ts2, ts3, exitStatus>>

\* variant: the open is retried whenever the previous call returned CLOCK_INVALID
GetPtpTime_L47_RetryAfterFailure ==
    /\ pc = "L47"
    /\ pc' = IF \/ clkid = CLOCK_INVALID
                \/ (Len(rets) > 0 /\ rets[Len(rets)] = CLOCK_INVALID)
             THEN "L48" ELSE "L57"
    /\ UNCHANGED <<clkid, fd, tsPtr, ts, openFds, ptpFds, out, rets, errs, opens,
                   openAttempts, readIds, entry, mpc, ts2, ts3, exitStatus>>

\* if (clkid == CLOCK_INVALID)
GetPtpTime_L47 ==
    /\ pc = "L47"
    /\ pc' = IF clkid = CLOCK_INVALID THEN "L48" ELSE "L57"
    /\ UNCHANGED <<clkid, fd, tsPtr, ts, openFds, ptpFds, out, rets, errs, opens,
                   openAttempts, readIds, entry, mpc, ts2, ts3, exitStatus>>

\* int fd = open(DEV_PATH, O_RDWR); printf("open ...")
GetPtpTime_L48 ==
    /\ pc = "L48"
    /\ \/ /\ fd' = LowestFree(openFds)
          /\ openFds' = openFds \cup {fd'}
          /\ ptpFds' = ptpFds \cup {fd'}
          /\ opens' = opens + 1
       \/ /\ fd' = -1
          /\ UNCHANGED <<openFds, ptpFds, opens>>
    /\ openAttempts' = openAttempts + 1
    /\ out' = Append(out, "open")
    /\ pc' = "L50"
    /\ UNCHANGED <<clkid, tsPtr, ts, rets, errs, readIds, entry, mpc,
                   ts2, ts3, exitStatus>>

\* variant: the identifier is derived before the descriptor is tested
GetPtpTime_L50_CacheFirst ==
    /\ pc = "L50"
    /\ clkid' = FD_TO_CLOCKID(fd)
    /\ IF fd < 0
       THEN /\ out' = Append(out, "Failed to open")
            /\ Return(CLOCK_INVALID, "DeviceUnavailable")
       ELSE /\ pc' = "L57"
            /\ UNCHANGED <<out, rets, errs>>
    /\ UNCHANGED <<fd, tsPtr, ts, openFds, ptpFds, opens, openAttempts, readIds,
                   entry, mpc, ts2, ts3, exitStatus>>

\* variant: the descriptor is closed once the identifier is derived
GetPtpTime_L50_Close ==
    /\ pc = "L50"
    /\ IF fd < 0
       THEN /\ out' = Append(out, "Failed to open")
            /\ Return(CLOCK_INVALID, "DeviceUnavailable")
            /\ UNCHANGED <<clkid, openFds, ptpFds>>
       ELSE /\ clkid' = FD_TO_CLOCKID(fd)
            /\ openFds' = openFds \ {fd}
            /\ ptpFds' = ptpFds \ {fd}
            /\ pc' = "L57"
            /\ UNCHANGED <<out, rets, errs>>
    /\ UNCHANGED <<fd, tsPtr, ts, opens, openAttempts, readIds,
                   entry, mpc, ts2, ts3, exitStatus>>

\* if (fd < 0) { cerr << "Failed to open"; return CLOCK_INVALID; }
\* clkid = FD_TO_CLOCKID(fd);
GetPtpTime_L50 ==
    /\ pc = "L50"
    /\ IF fd < 0
       THEN /\ out' = Append(out, "Failed to open")
            /\ Return(CLOCK_INVALID, "DeviceUnavailable")
            /\ UNCHANGED clkid
       ELSE /\ clkid' = FD_TO_CLOCKID(fd)
            /\ pc' = "L57"
            /\ UNCHANGED <<out, rets, errs>>
    /\ UNCHANGED <<fd, tsPtr, ts, openFds, ptpFds, opens, openAttempts, readIds,
                   entry, mpc, ts2, ts3, exitStatus>>

\* variant: the memset is missing
GetPtpTime_L57_NoMemset ==
    /\ pc = "L57"
    /\ IF tsPtr
       THEN /\ pc' = "L59"
            /\ UNCHANGED <<rets, errs>>
       ELSE /\ Return(clkid, "None")
    /\ UNCHANGED <<clkid, fd, tsPtr, ts, openFds, ptpFds, out, opens, openAttempts,
                   readIds, entry, mpc, ts2, ts3, exitStatus>>

\* if (ts != nullptr) { memset(ts, 0, sizeof(struct timespec)); ... } return clkid;
GetPtpTime_L57 ==
    /\ pc = "L57"
    /\ IF tsPtr
       THEN /\ ts' = Zero
            /\ pc' = "L59"
            /\ UNCHANGED <<rets, errs>>
       ELSE /\ Return(clkid, "None")
            /\ UNCHANGED ts
    /\ UNCHANGED <<clkid, fd, tsPtr, openFds, ptpFds, out, opens, openAttempts,
                   readIds, entry, mpc, ts2, ts3, exitStatus>>

\* variant: a failed read forgets the cached identifier
GetPtpTime_L59_Reset ==
    /\ pc = "L59"
    /\ readIds' = Append(readIds, clkid)
    /\ \/ /\ CLOCKID_TO_FD(clkid) \in ptpFds
          /\ ts' \in Times
          /\ Return(clkid, "None")
          /\ UNCHANGED <<out, clkid>>
       \/ /\ out' = Append(out, "clock_gettime failed")
          /\ Return(CLOCK_INVALID, "ReadFailed")
          /\ clkid' = CLOCK_INVALID
          /\ UNCHANGED ts
    /\ UNCHANGED <<fd, tsPtr, openFds, ptpFds, opens, openAttempts,
                   entry, mpc, ts2, ts3, exitStatus>>

\* if (clock_gettime(clkid, ts) < 0) { cerr << "clock_gettime failed"; return CLOCK_INVALID; }
\* return clkid;
\* The kernel serves the read only through the descriptor the identifier
\* resolves to; the device may also refuse the read.
GetPtpTime_L59 ==
    /\ pc = "L59"
    /\ readIds' = Append(readIds, clkid)
    /\ \/ /\ CLOCKID_TO_FD(clkid) \in ptpFds
          /\ ts' \in Times
          /\ Return(clkid, "None")
          /\ UNCHANGED out
       \/ /\ out' = Append(out, "clock_gettime failed")
          /\ Return(CLOCK_INVALID, "ReadFailed")
          /\ UNCHANGED ts
    /\ UNCHANGED <<clkid, fd, tsPtr, openFds, ptpFds, opens, openAttempts,
                   entry, mpc, ts2, ts3, exitStatus>>

(***************************************************************************)
(* A caller issuing any sequence of calls                                  *)
(***************************************************************************)
CallGetPtpTime ==
    /\ mpc = "caller"
    /\ Len(entry) < MaxCalls
    /\ \E p \in BOOLEAN : Call(p)
    /\ UNCHANGED <<clkid, fd, ts, openFds, ptpFds, out, rets, errs, opens,
                   openAttempts, readIds, mpc, ts2, ts3, exitStatus>>

\* the process before anything of the program has run: n descriptors are open
Start(n, garbage) ==
    /\ clkid = CLOCK_INVALID
    /\ pc = "idle"
    /\ fd = -1
    /\ tsPtr = FALSE
    /\ ts = garbage
    /\ openFds = 0..(n - 1)
    /\ ptpFds = {}
    /\ out = <<>>
    /\ rets = <<>>
    /\ errs = <<>>
    /\ opens = 0
    /\ openAttempts = 0
    /\ readIds = <<>>
    /\ entry = <<>>
    /\ exitStatus = {}

Init ==
    /\ \E n \in 0..MaxFd : \E g \in Indeterminate : Start(n, g)
    /\ mpc = "caller"
    /\ ts2 = Zero
    /\ ts3 = Zero

Next ==
    \/ CallGetPtpTime
    \/ GetPtpTime_L47
    \/ GetPtpTime_L48
    \/ GetPtpTime_L50
    \/ GetPtpTime_L57
    \/ GetPtpTime_L59

Spec == Init /\ [][Next]_vars

(***************************************************************************)
(* main                                                                    *)
(***************************************************************************)
\* clockid_t clkid = GetPtpTime(&ts);
main_L83 ==
    /\ mpc = "L83"
    /\ Call(TRUE)
    /\ mpc' = "L84"
    /\ UNCHANGED <<clkid, fd, ts, openFds, ptpFds, out, rets, errs, opens,
                   openAttempts, readIds, ts2, ts3, exitStatus>>

\* variant: the failure is reported but main does not return
main_L84_NoReturn ==
    /\ mpc = "L84"
    /\ pc = "idle"
    /\ IF rets[Len(rets)] = CLOCK_INVALID
       THEN out' = Append(out, "Failed to get clock ID")
       ELSE UNCHANGED out
    /\ mpc' = "L88"
    /\ UNCHANGED <<clkid, pc, fd, tsPtr, ts, openFds, ptpFds, rets, errs, opens,
                   openAttempts, readIds, entry, ts2, ts3, exitStatus>>

\* variant: the failure path returns 0
main_L84_Return0 ==
    /\ mpc = "L84"
    /\ pc = "idle"
    /\ IF rets[Len(rets)] = CLOCK_INVALID
       THEN /\ out' = Append(out, "Failed to get clock ID")
            /\ exitStatus' = {0}
            /\ mpc' = "exited"
       ELSE /\ mpc' = "L88"
            /\ UNCHANGED <<out, exitStatus>>
    /\ UNCHANGED <<clkid, pc, fd, tsPtr, ts, openFds, ptpFds, rets, errs, opens,
                   openAttempts, readIds, entry, ts2, ts3>>

\* if (clkid == CLOCK_INVALID) { cerr << "Failed to get clock ID"; return 1; }
main_L84 ==
    /\ mpc = "L84"
    /\ pc = "idle"
    /\ IF rets[Len(rets)] = CLOCK_INVALID
       THEN /\ out' = Append(out, "Failed to get clock ID")
            /\ exitStatus' = {1}
            /\ mpc' = "exited"
       ELSE /\ mpc' = "L88"
            /\ UNCHANGED <<out, exitStatus>>
    /\ UNCHANGED <<clkid, pc, fd, tsPtr, ts, openFds, ptpFds, rets, errs, opens,
                   openAttempts, readIds, entry, ts2, ts3>>

\* cout << "ptp time: " ...; PrintTime(ts);
main_L88 ==
    /\ mpc = "L88"
    /\ out' = out \o <<"ptp time", "date">>
    /\ mpc' = "L91"
    /\ UNCHANGED <<clkid, pc, fd, tsPtr, ts, openFds, ptpFds, rets, errs, opens,
                   openAttempts, readIds, entry, ts2, ts3, exitStatus>>

\* clock_gettime(CLOCK_REALTIME, &ts2); cout << "real time: " ...; PrintTime(ts2);
main_L91 ==
    /\ mpc = "L91"
    /\ ts2' \in Times
    /\ out' = out \o <<"real time", "date">>
    /\ mpc' = "L96"
    /\ UNCHANGED <<clkid, pc, fd, tsPtr, ts, openFds, ptpFds, rets, errs, opens,
                   openAttempts, readIds, entry, ts3, exitStatus>>

\* ts3 from std::chrono::system_clock::now(); cout << "system clock time: " ...;
\* PrintTime(ts3); return 0;
main_L96 ==
    /\ mpc = "L96"
    /\ \E duration_ns \in NowCounts :
          ts3' = [tv_sec |-> duration_ns \div NSEC_PER_SEC,
                  tv_nsec |-> duration_ns % NSEC_PER_SEC]
    /\ out' = out \o <<"system clock time", "date">>
    /\ exitStatus' = {0}
    /\ mpc' = "exited"
    /\ UNCHANGED <<clkid, pc, fd, tsPtr, ts, openFds, ptpFds, rets, errs, opens,
                   openAttempts, readIds, entry, ts2>>

InitMain ==
    /\ \E n \in 0..MaxFd : \E g \in Indeterminate : Start(n, g)
    /\ mpc = "L83"
    /\ ts2 \in Indeterminate
    /\ ts3 = Zero

NextMain ==
    \/ main_L83
    \/ main_L84
    \/ main_L88
    \/ main_L91
    \/ main_L96
    \/ GetPtpTime_L47
    \/ GetPtpTime_L48
    \/ GetPtpTime_L50
    \/ GetPtpTime_L57
    \/ GetPtpTime_L59

SpecMain == InitMain /\ [][NextMain]_vars

\* main is a sequential program: it keeps running until it returns
SpecMainFair == SpecMain /\ WF_vars(NextMain)

(***************************************************************************)
(* FD_TO_CLOCKID applied to handle values                                  *)
(***************************************************************************)
Derive ==
    /\ pc = "derive"
    /\ clkid' = FD_TO_CLOCKID(fd)
    /\ pc' = "derived"
    /\ UNCHANGED <<fd, tsPtr, ts, openFds, ptpFds, out, rets, errs, opens,
                   openAttempts, readIds, entry, mpc, ts2, ts3, exitStatus>>

InitDerive ==
    /\ fd \in 0..MaxHandle
    /\ clkid = CLOCK_INVALID
    /\ pc = "derive"
    /\ tsPtr = FALSE
    /\ ts = Zero
    /\ openFds = {fd}
    /\ ptpFds = {fd}
    /\ out = <<>>
    /\ rets = <<>>
    /\ errs = <<>>
    /\ opens = 0
    /\ openAttempts = 0
    /\ readIds = <<>>
    /\ entry = <<>>
    /\ exitStatus = {}
    /\ mpc = "caller"
    /\ ts2 = Zero
    /\ ts3 = Zero

NextDerive == Derive

SpecDerive == InitDerive /\ [][NextDerive]_vars

(***************************************************************************)
(* The caller's sequence of calls and main together                        *)
(***************************************************************************)
InitAll == Init \/ InitMain

NextAll ==
    \/ CallGetPtpTime
    \/ main_L83
    \/ main_L84
    \/ main_L88
    \/ main_L91
    \/ main_L96
    \/ GetPtpTime_L47
    \/ GetPtpTime_L48
    \/ GetPtpTime_L50
    \/ GetPtpTime_L57
    \/ GetPtpTime_L59

SpecAll == InitAll /\ [][NextAll]_vars

(***************************************************************************)
(* Properties                                                              *)
(***************************************************************************)
Printed(line) == \E k \in 1..Len(out) : out[k] = line
Finished == 1..Len(rets)
LastErr == errs[Len(errs)]

\* C1 as stated: every call begun after a successful open returns the cached
\* identifier.
C1_LaterCallsReturnCachedId ==
    \A i \in Finished : entry[i].opens >= 1 => rets[i] = clkid

\* C1 amended: at most one open ever succeeds, the open at line 48 is reached
\* only while nothing is cached, and a call begun after a successful open
\* attempts no open and returns the cached identifier unless its clock read
\* fails, in which case it returns CLOCK_INVALID.
C1_SingleOpenCachedReturn ==
    /\ opens <= 1
    /\ pc = "L48" => clkid = CLOCK_INVALID
    /\ \A i \in 1..Len(entry) : entry[i].opens >= 1 => openAttempts = entry[i].attempts
    /\ \A i \in Finished :
          entry[i].opens >= 1 =>
             rets[i] = IF errs[i] = "ReadFailed" THEN CLOCK_INVALID ELSE clkid

C1_Witness ==
    /\ Len(rets) = 3
    /\ entry[2].opens = 1
    /\ errs[2] = "None" /\ rets[2] = clkid
    /\ errs[3] = "ReadFailed"
    /\ clkid # CLOCK_INVALID

\* C2: a call whose open fails returns CLOCK_INVALID and caches nothing, so
\* while no open has succeeded every call made has attempted the open; between
\* calls the identifier is cached iff some open has succeeded.
C2_CachedIffOpened ==
    /\ pc = "idle" => ((clkid # CLOCK_INVALID) <=> (opens >= 1))
    /\ \A i \in Finished : errs[i] = "DeviceUnavailable" => rets[i] = CLOCK_INVALID
    /\ (pc = "idle" /\ opens = 0) =>
          /\ openAttempts = Len(entry)
          /\ \A i \in Finished : errs[i] = "DeviceUnavailable"

C2_Witness ==
    /\ pc = "idle"
    /\ Len(rets) = 3
    /\ errs[1] = "DeviceUnavailable" /\ errs[2] = "DeviceUnavailable"
    /\ openAttempts = 3
    /\ opens = 1
    /\ clkid # CLOCK_INVALID

\* C3: once the cached identifier holds a value, no step changes it.
C3_CachedIsTerminal == [][clkid # CLOCK_INVALID => clkid' = clkid]_vars

C3_Witness ==
    /\ pc = "idle"
    /\ Len(rets) = 3
    /\ errs[2] = "ReadFailed"
    /\ errs[3] = "None" /\ ~tsPtr
    /\ clkid # CLOCK_INVALID

\* C4: whenever an identifier is cached, the descriptor it resolves to is
\* still open on the device, and every descriptor the program opened on the
\* device is still open.
C4_HandleNeverReleased ==
    /\ clkid # CLOCK_INVALID => CLOCKID_TO_FD(clkid) \in ptpFds
    /\ Cardinality(ptpFds) = opens
    /\ opens >= 1 => fd \in ptpFds

C4_Witness ==
    /\ mpc = "exited"
    /\ exitStatus = {1}
    /\ errs = <<"ReadFailed">>
    /\ CLOCKID_TO_FD(clkid) \in ptpFds

\* C5 as stated: the wall-clock read and its report happen in every run of
\* main, whether or not the hardware clock path failed.
C5_WallClockAlwaysReported ==
    mpc = "exited" => Printed("real time")

\* C5 amended: main reads and reports the wall clock only after GetPtpTime
\* succeeded; when the acquisition or the read of the hardware clock fails,
\* main returns 1 with ts2 untouched and no "real time" line.
C5_WallClockOnlyAfterSuccess ==
    /\ Printed("real time") => (Len(rets) = 1 /\ rets[1] # CLOCK_INVALID)
    /\ mpc = "exited" => (Printed("real time") <=> errs[1] = "None")
    /\ (mpc = "exited" /\ errs[1] # "None") =>
          (exitStatus = {1} /\ ~Printed("system clock time"))

C5_Witness ==
    /\ mpc = "exited"
    /\ errs = <<"ReadFailed">>
    /\ ~Printed("real time")

\* C6: when the open fails, main reports the failure and returns 1, and
\* "ptp time" is never printed in that run; main returns 0 only when the
\* device was opened and read.
OpenFailed == mpc # "caller" /\ openAttempts >= 1 /\ pc # "L48" /\ fd < 0

C6_OpenFailureExits1 ==
    /\ [](OpenFailed => ~Printed("ptp time"))
    /\ []((OpenFailed /\ mpc = "exited") =>
            /\ exitStatus = {1}
            /\ Printed("Failed to open")
            /\ Printed("Failed to get clock ID"))
    /\ [](exitStatus = {0} =>
            /\ opens = 1
            /\ errs = <<"None">>
            /\ rets = <<clkid>>
            /\ Printed("ptp time"))
    /\ (OpenFailed ~> (mpc = "exited" /\ exitStatus = {1}))

C6_Witness ==
    /\ OpenFailed
    /\ mpc = "exited"
    /\ exitStatus = {1}
    /\ out = <<"open", "Failed to open", "Failed to get clock ID">>

\* C7: for every handle in the bounded range the identifier resolves back to
\* the handle, no other handle of the range gives the same identifier, the
\* low three bits are 011, and handle 3 gives -29.
C7_DerivationInvertible ==
    pc = "derived" =>
       /\ CLOCKID_TO_FD(clkid) = fd
       /\ \A g \in 0..MaxHandle : g # fd => FD_TO_CLOCKID(g) # clkid
       /\ ToBits(clkid)[0] = 1 /\ ToBits(clkid)[1] = 1 /\ ToBits(clkid)[2] = 0
       /\ fd = 3 => clkid = -29

C7_Witness ==
    /\ pc = "derived"
    /\ fd = 3
    /\ clkid = -29

\* C8: the clock is queried only with a zeroed timespec, and a call whose
\* clock read fails returns CLOCK_INVALID and leaves the caller's timespec
\* zeroed.
C8_ZeroedBeforeRead ==
    /\ pc = "L59" => (ts = Zero /\ clkid # CLOCK_INVALID)
    /\ (pc = "idle" /\ Len(errs) >= 1 /\ LastErr = "ReadFailed") =>
          (rets[Len(rets)] = CLOCK_INVALID /\ ts = Zero)

C8_Witness ==
    /\ pc = "idle"
    /\ Len(errs) >= 1
    /\ LastErr = "ReadFailed"
    /\ entry[Len(entry)].ts # Zero
    /\ entry[Len(entry)].opens = 1
    /\ ts = Zero

\* C9: a call whose clock read fails returns CLOCK_INVALID and keeps the
\* identifier; no open is attempted after it, the device has been opened once,
\* and every clock read has used the one cached identifier.
C9_ReadFailureKeepsCache ==
    /\ \A i \in Finished : errs[i] = "ReadFailed" => rets[i] = CLOCK_INVALID
    /\ (\E i \in Finished : errs[i] = "ReadFailed") =>
          /\ clkid # CLOCK_INVALID
          /\ opens = 1
          /\ Cardinality(ptpFds) = 1
          /\ \A k \in 1..Len(readIds) : readIds[k] = clkid
    /\ \A i \in Finished :
          (errs[i] = "ReadFailed" /\ i + 1 <= Len(entry)) =>
             openAttempts = entry[i + 1].attempts

C9_Witness ==
    /\ Len(rets) = 3
    /\ errs[1] = "ReadFailed" /\ errs[2] = "ReadFailed"
    /\ errs[3] = "None" /\ tsPtr
    /\ readIds = <<clkid, clkid, clkid>>
    /\ opens = 1

\* C10: the identifier derived from a handle is never CLOCK_INVALID, so after
\* a successful open the identifier is cached, and a call that succeeded never
\* returns CLOCK_INVALID.
C10_DerivedIdNeverInvalid ==
    /\ \A f \in 0..MaxHandle : FD_TO_CLOCKID(f) # CLOCK_INVALID
    /\ (opens >= 1 /\ pc # "L50") => clkid # CLOCK_INVALID
    /\ pc \in {"L57", "L59"} => clkid # CLOCK_INVALID
    /\ \A i \in Finished : errs[i] = "None" => rets[i] # CLOCK_INVALID

C10_Witness ==
    /\ pc = "idle"
    /\ fd = 0
    /\ errs = <<"None">>
    /\ rets = <<FD_TO_CLOCKID(0)>>
    /\ clkid = -5


TypeOK ==
    /\ clkid \in Int
    /\ pc \in {"idle", "L47", "L48", "L50", "L57", "L59", "derive", "derived"}
    /\ tsPtr \in BOOLEAN
    /\ ts \in Indeterminate
    /\ ptpFds \subseteq openFds
    /\ Len(rets) = Len(errs)
    /\ Len(rets) <= Len(entry)
    /\ exitStatus \subseteq {0, 1}

====
